---------------------------- MODULE Spec2Model ----------------------------
(***************************************************************************)
(* A model of the ecco compiler front end:                                 *)
(*   - ecco/generation/symboltable.py : HashTableSymbolTable, FPSymbolTable *)
(*   - ecco/scanning/ecco_scanner.py  : Scanner                             *)
(*   - ecco/parsing/statement.py      : match_token, parse_statements       *)
(* The specifications of the module: SpecTable runs the two symbol tables  *)
(* side by side, SpecScan drives one Scanner method at a time, SpecLong    *)
(* does so on files with identifiers about 512 long, SpecTokens calls      *)
(* scan() alone, SpecScanFile runs scan_file, SpecLife follows the input   *)
(* source from acquisition to release, and SpecParse runs the statement    *)
(* generator over a scanner.                                               *)
(***************************************************************************)
EXTENDS Integers, Sequences, FiniteSets, TLC

VARIABLES
    ht_data,      \* HashTableSymbolTable.data : the slots
    fp_data,      \* FPSymbolTable.data : the closures update has built, the last one being self.data
    fp_length,    \* FPSymbolTable._length
    last_call,    \* the call both tables received last
    ht_ret,       \* what the hash table's method returned (or raised)
    fp_ret,       \* what the closure table's method returned (or raised)
    latest,       \* ghost: per name, the entry of the most recent update call
    resized,      \* ghost: resize has been called on the hash table
    file_text,    \* Scanner.file : the characters of the program file
    scanner,      \* the Scanner object: file position, put_back_buffer, line_number, char_number, current_token
    sc_call,      \* the Scanner method called last
    sc_ret,       \* what it returned (or raised)
    gen,          \* the parse_statements generator: "created", "suspended" at its yield, "finished"
    yielded,      \* the AST fragments it has yielded so far
    resume_ret,   \* what the last next() on it gave: a fragment, StopIteration or an error
    match_calls,  \* ghost: the match_token calls of the last next(), each with the scanner before and after
    parsed,       \* ghost: the fragments parse_binary_expression has returned so far
    program,      \* ghost: the statements the program file was written from
    source_exists,\* os.path.exists(self.filename)
    file,         \* Scanner.file : unset, or the file object open() returned
    initialized,  \* Scanner.initialized
    caller,       \* where the scanner's user is: before acquiring, in a with block, after open(), or done
    life_call,    \* the method of the source's life cycle called last
    life_ret      \* what it returned (or raised)

table_vars == <<ht_data, fp_data, fp_length, last_call, ht_ret, fp_ret, latest, resized>>

scan_vars == <<file_text, scanner, sc_call, sc_ret>>

parse_vars == <<gen, yielded, resume_ret, match_calls, parsed, program>>

life_vars == <<source_exists, file, initialized, caller, life_call, life_ret>>

vars == <<table_vars, scan_vars, parse_vars, life_vars>>

-----------------------------------------------------------------------------
(* Bounds of the model *)

\* largest slot count the hash table is constructed with
MaxInitLength == 4
\* largest slot count resize may grow the hash table to
MaxLength == 4
\* number of closures update may build on the closure table
MaxUpdates == 2
\* longest program file the scanner is run on
MaxInput == 3
\* largest number of statements a program file is written from
MaxStatements == 2
\* char_number up to which the scanner is still called (reads at end of file
\* keep incrementing it)
MaxCharNumber == 5
\* how far below and above the identifier limit the long runs of letters reach
MaxMargin == 2

-----------------------------------------------------------------------------
(* Values *)

\* Python's None
None == [tag |-> "None"]

\* a SymbolTableEntry(identifier_name, value) object
SymbolTableEntry(n, v) == [tag |-> "SymbolTableEntry", identifier_name |-> n, value |-> v]

\* a method's normal bool result
Bool(b) == [tag |-> "bool", v |-> b]

\* a method left by an exception
Raised(e) == [tag |-> "raised", exc |-> e]

\* identifiers, as the code points of their characters: "a", "b", "ab"
Names == {<<97>>, <<98>>, <<97, 98>>}

Entries == {SymbolTableEntry(<<97>>, 1), SymbolTableEntry(<<98>>, 2)}

OptionalEntries == Entries \cup {None}

-----------------------------------------------------------------------------
(* Python's unbounded integers, as little-endian sequences of base-256     *)
(* limbs (TLC's own integers are 32 bits wide).                            *)

Base == 2^8

\* drop the leading zero limbs
RECURSIVE Normalize(_)
Normalize(x) ==
    IF x # <<>> /\ x[Len(x)] = 0 THEN Normalize(SubSeq(x, 1, Len(x) - 1)) ELSE x

\* the limbs of a small natural
RECURSIVE ToLimbs(_)
ToLimbs(k) == IF k = 0 THEN <<>> ELSE <<k % Base>> \o ToLimbs(k \div Base)

Limb(x, i) == IF i <= Len(x) THEN x[i] ELSE 0

Max(a, b) == IF a >= b THEN a ELSE b

\* x + y
RECURSIVE AddCarry(_, _, _, _)
AddCarry(x, y, i, carry) ==
    IF i > Max(Len(x), Len(y))
    THEN ToLimbs(carry)
    ELSE LET s == Limb(x, i) + Limb(y, i) + carry
         IN  <<s % Base>> \o AddCarry(x, y, i + 1, s \div Base)

BigAdd(x, y) == Normalize(AddCarry(x, y, 1, 0))

\* x * d for one limb d
RECURSIVE MulLimbCarry(_, _, _, _)
MulLimbCarry(x, d, i, carry) ==
    IF i > Len(x)
    THEN ToLimbs(carry)
    ELSE LET p == x[i] * d + carry
         IN  <<p % Base>> \o MulLimbCarry(x, d, i + 1, p \div Base)

\* x * Base^k
RECURSIVE ShiftLimbs(_, _)
ShiftLimbs(x, k) == IF k = 0 THEN x ELSE <<0>> \o ShiftLimbs(x, k - 1)

\* x * y, schoolbook
RECURSIVE MulFrom(_, _, _)
MulFrom(x, y, j) ==
    IF j > Len(y)
    THEN <<>>
    ELSE BigAdd(ShiftLimbs(MulLimbCarry(x, y[j], 1, 0), j - 1), MulFrom(x, y, j + 1))

BigMul(x, y) == Normalize(MulFrom(x, y, 1))

\* a ^ b on two limbs, bit by bit
RECURSIVE XorLimb(_, _)
XorLimb(a, b) ==
    IF a = 0 THEN b
    ELSE IF b = 0 THEN a
    ELSE ((a + b) % 2) + 2 * XorLimb(a \div 2, b \div 2)

\* x ^ y
RECURSIVE XorFrom(_, _, _)
XorFrom(x, y, i) ==
    IF i > Max(Len(x), Len(y))
    THEN <<>>
    ELSE <<XorLimb(Limb(x, i), Limb(y, i))>> \o XorFrom(x, y, i + 1)

BigXor(x, y) == Normalize(XorFrom(x, y, 1))

\* x % n for a small n > 0, from the most significant limb down
RECURSIVE ModFrom(_, _, _, _)
ModFrom(x, n, i, r) ==
    IF i = 0 THEN r ELSE ModFrom(x, n, i - 1, (r * Base + x[i]) % n)

BigMod(x, n) == ModFrom(x, n, Len(x), 0)

-----------------------------------------------------------------------------
(* symboltable.py : the FNV constants, as limbs *)

\* 0xCBF29CE484222325
FNV_OFFSET_BASIS == <<37, 35, 34, 132, 228, 156, 242, 203>>

\* 0x100000001B3
FNV_PRIME == <<179, 1, 0, 0, 0, 1>>

-----------------------------------------------------------------------------
(* HashTableSymbolTable *)

\* the loop of hash(): for c in s: hash ^= ord(c); hash *= FNV_PRIME
RECURSIVE HashLoop(_, _, _)
HashLoop(hash, s, i) ==
    IF i > Len(s)
    THEN hash
    ELSE HashLoop(BigMul(BigXor(hash, ToLimbs(s[i])), FNV_PRIME), s, i + 1)

\* the loop's result for each identifier of the model, computed once
HashLoopOf == [s \in Names |-> HashLoop(FNV_OFFSET_BASIS, s, 1)]

\* hash(s) on a table of `length` slots, as a 0-based index
hash(s, length) == BigMod(HashLoopOf[s], length)

\* self.data[index] with a 0-based index
Slot(data, index) == data[index + 1]

\* HashTableSymbolTable.get
HashGet(data, identifier) == Slot(data, hash(identifier, Len(data)))

\* HashTableSymbolTable.update : the value returned
HashUpdateReturn(data, identifier) ==
    LET id_index == hash(identifier, Len(data))
    IN  IF Slot(data, id_index) = None THEN TRUE ELSE FALSE

\* a variant of update that leaves an occupied slot alone
HashUpdateData_KeepOccupied(data, identifier, entry) ==
    IF data[hash(identifier, Len(data)) + 1] = None
    THEN [data EXCEPT ![hash(identifier, Len(data)) + 1] = entry]
    ELSE data

\* HashTableSymbolTable.update : self.data afterwards
HashUpdateData(data, identifier, entry) ==
    [data EXCEPT ![hash(identifier, Len(data)) + 1] = entry]

\* a variant of resize that puts the new slots in front of the old ones
HashResize_Prepend(data, factor) == [i \in 1..factor |-> None] \o data

\* HashTableSymbolTable.resize : self.data += [None] * factor
HashResize(data, factor) == data \o [i \in 1..factor |-> None]

-----------------------------------------------------------------------------
(* FPSymbolTable *)

\* A function object update built: the identifier and entry its body closes over.
Closure(identifier, entry) == [identifier |-> identifier, entry |-> entry]

\* Function objects are named by their place in fp_data; 0 names identity_table.
\* self.data, read now
SelfData(closures) == Len(closures)

\* new_symbol_table's `current_symbol_table = self.data`, run inside function i
CurrentSymbolTable(closures, i) == SelfData(closures)

\* Calling function i on s. A function that delegates to itself with the same
\* argument can only end in Python's RecursionError.
RECURSIVE Call(_, _, _)
Call(closures, i, s) ==
    IF i = 0
    THEN None
    ELSE IF s = closures[i].identifier
    THEN closures[i].entry
    ELSE LET current_symbol_table == CurrentSymbolTable(closures, i)
         IN  IF current_symbol_table = i
             THEN Raised("RecursionError")
             ELSE Call(closures, current_symbol_table, s)

\* FPSymbolTable.get
FPGet(closures, identifier) == Call(closures, SelfData(closures), identifier)

\* a variant of the counter that does not look at symbol_already_exists
FPUpdateLength_IgnoreExisting(length, symbol_already_exists, entry) ==
    IF entry # None THEN length + 1 ELSE length - 1

\* FPSymbolTable.update : _length afterwards
FPUpdateLength(length, symbol_already_exists, entry) ==
    IF ~symbol_already_exists /\ entry # None
    THEN length + 1
    ELSE IF symbol_already_exists /\ entry = None
    THEN length - 1
    ELSE length

-----------------------------------------------------------------------------
(* The two tables, given the same calls *)

\* update(identifier, entry) on both tables
Update(identifier, entry) ==
    /\ Len(fp_data) < MaxUpdates
    /\ last_call' = [op |-> "update", identifier |-> identifier, entry |-> entry]
    /\ ht_ret' = Bool(HashUpdateReturn(ht_data, identifier))
    /\ ht_data' = HashUpdateData(ht_data, identifier, entry)
    /\ latest' = [latest EXCEPT ![identifier] = entry]
    /\ LET got == FPGet(fp_data, identifier)
       IN  IF got.tag = "raised"
           THEN \* self.get(identifier) raised: nothing was assigned
                /\ fp_ret' = got
                /\ UNCHANGED <<fp_data, fp_length>>
           ELSE LET symbol_already_exists == got # None
                IN  /\ fp_data' = Append(fp_data, Closure(identifier, entry))
                    /\ fp_length' = FPUpdateLength(fp_length, symbol_already_exists, entry)
                    /\ fp_ret' = Bool(symbol_already_exists)
    /\ UNCHANGED <<resized, scan_vars, parse_vars, life_vars>>

\* get(identifier) on both tables
Get(identifier) ==
    /\ last_call' = [op |-> "get", identifier |-> identifier]
    /\ ht_ret' = HashGet(ht_data, identifier)
    /\ fp_ret' = FPGet(fp_data, identifier)
    /\ UNCHANGED <<ht_data, fp_data, fp_length, latest, resized, scan_vars, parse_vars, life_vars>>

\* resize(factor) on the hash table
Resize(factor) ==
    /\ Len(ht_data) + factor <= MaxLength
    /\ last_call' = [op |-> "resize", factor |-> factor]
    /\ ht_data' = HashResize(ht_data, factor)
    /\ ht_ret' = None
    /\ resized' = TRUE
    /\ UNCHANGED <<fp_data, fp_length, fp_ret, latest, scan_vars, parse_vars, life_vars>>

NextTable ==
    \/ \E identifier \in Names, entry \in OptionalEntries : Update(identifier, entry)
    \/ \E identifier \in Names : Get(identifier)
    \/ \E factor \in 1..2 : Resize(factor)

-----------------------------------------------------------------------------
(* Properties of the symbol tables *)

\* the names are pairwise collision-free in a hash table of `length` slots
CollisionFree(length) ==
    \A a, b \in Names : a # b => hash(a, length) # hash(b, length)

\* C1: on the closure table, get(name) returns the entry of the most recent
\* update call for that name, absent when there was none, whatever was
\* updated in between.
C1_GetReflectsLatestUpdate ==
    last_call.op = "get" => fp_ret = latest[last_call.identifier]

\* C2: on the hash table, update returns true exactly when the slot the
\* identifier hashes to held an entry just before the write.
C2_UpdateReturnsSlotOccupied ==
    [][last_call'.op = "update" =>
          ht_ret' = Bool(HashGet(ht_data, last_call'.identifier) # None)]_vars

\* C3: on the closure table, length is the number of names for which get
\* returns an entry, and it is never negative.
C3_LengthCountsBoundNames ==
    /\ fp_length = Cardinality({n \in Names : FPGet(fp_data, n).tag = "SymbolTableEntry"})
    /\ fp_length >= 0

\* C3's case: an update of a bound name with None has decremented the counter.
C3_Witness ==
    /\ last_call.op = "update"
    /\ last_call.entry = None
    /\ fp_ret = Bool(TRUE)
    /\ Len(fp_data) >= 2
    /\ fp_length = 0

\* C4: over collision-free names and without resize, the two tables return
\* the same value from every get and the same boolean from every update.
C4_VariantsAgree ==
    (/\ last_call.op \in {"update", "get"}
     /\ ~resized
     /\ CollisionFree(Len(ht_data)))
    => ht_ret = fp_ret

\* C5: on the hash table, when a # b hash to the same slot, update(a, E1)
\* followed by update(b, E2) makes get(a) and get(b) both return E2.
C5_CollisionOverwrite ==
    [][\A a, b \in Names, E1, E2 \in Entries :
          (/\ a # b
           /\ hash(a, Len(ht_data)) = hash(b, Len(ht_data))
           /\ last_call = [op |-> "update", identifier |-> a, entry |-> E1]
           /\ last_call' = [op |-> "update", identifier |-> b, entry |-> E2])
          => (/\ Len(ht_data') = Len(ht_data)
              /\ HashGet(ht_data', a) = E2
              /\ HashGet(ht_data', b) = E2)]_vars

\* C5's case: a was last bound to E1, then the colliding b was bound to another
\* entry E2, and a now reads E2.
C5_Witness ==
    \E a, b \in Names, E1, E2 \in Entries :
        /\ a # b /\ E1 # E2
        /\ hash(a, Len(ht_data)) = hash(b, Len(ht_data))
        /\ last_call = [op |-> "update", identifier |-> b, entry |-> E2]
        /\ latest[a] = E1
        /\ ~resized
        /\ HashGet(ht_data, a) = E2

C16_LookupTerminates ==
    last_call.op \in {"get", "update"} => fp_ret # Raised("RecursionError")

\* x mod 2^64: the eight low limbs of x
Wrap64(x) == Normalize(SubSeq(x, 1, IF Len(x) < 8 THEN Len(x) ELSE 8))

\* the 64-bit FNV-1a hash: h = ((h XOR code_point) * prime) mod 2^64
\* for each character, from the offset basis
RECURSIVE Fnv1a64(_, _, _)
Fnv1a64(h, s, i) ==
    IF i > Len(s)
    THEN h
    ELSE Fnv1a64(Wrap64(BigMul(BigXor(h, ToLimbs(s[i])), FNV_PRIME)), s, i + 1)

\* the 64-bit FNV-1a hash of each identifier of the model
Fnv1a64Of == [s \in Names |-> Fnv1a64(FNV_OFFSET_BASIS, s, 1)]

\* C15: for every string s and every slot count n, the index hash(s) that
\* get and update use is the 64-bit FNV-1a hash of s reduced modulo n, and
\* lies in 0..n-1.
C15_HashIsFnv1a64 ==
    last_call.op \in {"get", "update"} =>
        /\ hash(last_call.identifier, Len(ht_data))
               = BigMod(Fnv1a64Of[last_call.identifier], Len(ht_data))
        /\ hash(last_call.identifier, Len(ht_data)) \in 0..(Len(ht_data) - 1)

-----------------------------------------------------------------------------
(* Scanner : values *)

\* a str result
Str(c) == [tag |-> "str", v |-> c]

\* an int result
IntResult(n) == [tag |-> "int", v |-> n]

\* a scanned identifier, as the sequence of its characters
Identifier(cs) == [tag |-> "identifier", v |-> cs]

\* a Token object
Token(type, value) == [tag |-> "Token", type |-> type, value |-> value]

\* Token() as constructed at the start of scan
FreshToken == Token("UNKNOWN_TOKEN", 0)

\* str.isdigit, on the characters of the model
Digits == {"0", "1", "2", "3", "4", "5", "6", "7", "8", "9"}

DigitValue(c) ==
    CASE c = "0" -> 0 [] c = "1" -> 1 [] c = "2" -> 2 [] c = "3" -> 3 [] c = "4" -> 4
      [] c = "5" -> 5 [] c = "6" -> 6 [] c = "7" -> 7 [] c = "8" -> 8 [] c = "9" -> 9

isdigit(c) == c \in Digits

\* str.isspace
Whitespace == {" ", "\t", "\n"}

isspace(c) == c \in Whitespace

\* str.isalpha, on the letters of the model
Letters == {"a", "i", "n", "p", "r", "t"}

isalpha(c) == c \in Letters

\* the token-kind catalog: TokenType.from_string on one character
SingleCharacterTokens == {"+", "-", "*", "/", ";"}

\* the reserved keyword spellings
KeywordPrint == <<"p", "r", "i", "n", "t">>

Keywords == {KeywordPrint}

TokenTypeFromCharacter(c) ==
    CASE c = "+" -> "PLUS" [] c = "-" -> "MINUS" [] c = "*" -> "TIMES"
      [] c = "/" -> "DIVIDE" [] c = ";" -> "SEMICOLON" [] OTHER -> "UNKNOWN_TOKEN"

TokenTypeFromSpelling(cs) ==
    IF cs = KeywordPrint THEN "PRINT" ELSE "UNKNOWN_TOKEN"

\* the characters program files are made of
Alphabet == {"1", "2", " ", "\n", ";", "a"}

\* len() of the strings of the model: "", one character, or the two-character "ab"
len(c) == Len(c)

-----------------------------------------------------------------------------
(* Scanner : methods, as functions of the file's text and the Scanner object *)

\* Scanner.__init__, and the file opened at its start
NewScanner ==
    [file_pos |-> 0, put_back_buffer |-> "", line_number |-> 1, char_number |-> 1,
     current_token |-> [tag |-> "unset"]]

\* self.file.read(1)
FileRead(text, pos) == IF pos < Len(text) THEN text[pos + 1] ELSE ""

\* a variant of next_character that counts a buffered character as read again
NextCharacter_CountsBuffered(text, s) ==
    IF s.put_back_buffer # ""
    THEN [s |-> [s EXCEPT !.put_back_buffer = "",
                          !.char_number = @ + 1,
                          !.line_number = IF s.put_back_buffer = "\n" THEN @ + 1 ELSE @],
          c |-> s.put_back_buffer]
    ELSE LET c == FileRead(text, s.file_pos)
         IN  [s |-> [s EXCEPT !.file_pos = IF c = "" THEN @ ELSE @ + 1,
                              !.line_number = IF c = "\n" THEN @ + 1 ELSE @,
                              !.char_number = IF c = "\n" THEN 1 ELSE @ + 1],
              c |-> c]

\* a variant of next_character that starts a new line at end of input as well
NextCharacter_CountsEndOfInput(text, s) ==
    IF s.put_back_buffer # ""
    THEN [s |-> [s EXCEPT !.put_back_buffer = ""], c |-> s.put_back_buffer]
    ELSE LET c == FileRead(text, s.file_pos)
         IN  [s |-> [s EXCEPT !.file_pos = IF c = "" THEN @ ELSE @ + 1,
                              !.line_number = IF c \in {"\n", ""} THEN @ + 1 ELSE @,
                              !.char_number = IF c \in {"\n", ""} THEN 1 ELSE @ + 1],
              c |-> c]

\* Scanner.next_character
NextCharacter(text, s) ==
    IF s.put_back_buffer # ""
    THEN [s |-> [s EXCEPT !.put_back_buffer = ""], c |-> s.put_back_buffer]
    ELSE LET c == FileRead(text, s.file_pos)
         IN  [s |-> [s EXCEPT !.file_pos = IF c = "" THEN @ ELSE @ + 1,
                              !.line_number = IF c = "\n" THEN @ + 1 ELSE @,
                              !.char_number = IF c = "\n" THEN 1 ELSE @ + 1],
              c |-> c]

\* Scanner.skip : the loop, r being what next_character gave last
RECURSIVE SkipLoop(_, _)
SkipLoop(text, r) ==
    IF isspace(r.c) THEN SkipLoop(text, NextCharacter(text, r.s)) ELSE r

\* a variant of skip that tests for whitespace once instead of looping
Skip_Once(text, s) ==
    LET r == NextCharacter(text, s)
    IN  IF isspace(r.c) THEN NextCharacter(text, r.s) ELSE r

\* Scanner.skip
Skip(text, s) == SkipLoop(text, NextCharacter(text, s))

\* Scanner.put_back
PutBack(s, c) ==
    IF len(c) # 1
    THEN [s |-> s, raised |-> "TypeError"]
    ELSE [s |-> [s EXCEPT !.put_back_buffer = c], raised |-> ""]

\* int(in_string) for a string of digits
RECURSIVE int(_)
int(in_string) ==
    IF in_string = <<>>
    THEN 0
    ELSE 10 * int(SubSeq(in_string, 1, Len(in_string) - 1))
         + DigitValue(in_string[Len(in_string)])

\* Scanner.scan_integer_literal : the while loop
RECURSIVE IntegerLoop(_, _, _, _)
IntegerLoop(text, s, c, in_string) ==
    IF isdigit(c)
    THEN IntegerLoop(text, NextCharacter(text, s).s, NextCharacter(text, s).c,
                     Append(in_string, c))
    ELSE [s |-> s, c |-> c, in_string |-> in_string]

\* Scanner.scan_integer_literal : return int(in_string), p being what put_back did
IntegerLiteralReturn(l, p) ==
    IF p.raised # ""
    THEN [s |-> p.s, ret |-> Raised(p.raised)]
    ELSE IF l.in_string = <<>>
    THEN [s |-> p.s, ret |-> Raised("ValueError")]
    ELSE [s |-> p.s, ret |-> IntResult(int(l.in_string))]

\* a variant that puts back the first digit of the literal instead of the
\* character that ended it
IntegerLiteralPutBack_FirstDigit(l) ==
    IntegerLiteralReturn(l, PutBack(l.s, IF l.in_string = <<>> THEN l.c ELSE Head(l.in_string)))

\* Scanner.scan_integer_literal : self.put_back(c), l being where the loop ended
IntegerLiteralPutBack(l) == IntegerLiteralReturn(l, PutBack(l.s, l.c))

\* Scanner.scan_integer_literal
ScanIntegerLiteral(text, s, c) == IntegerLiteralPutBack(IntegerLoop(text, s, c, <<>>))

\* the identifier length at which scan_identifier gives up
IdentifierLimit == 512

\* a variant of the loop body that gives up only when the limit is exceeded
IdentifierIteration_LimitExceeded(text, l) ==
    IF l.raised = "" /\ (isalpha(l.c) \/ l.c = "_")
    THEN [s |-> NextCharacter(text, l.s).s, c |-> NextCharacter(text, l.s).c,
          identifier |-> Append(l.identifier, l.c),
          raised |-> IF Len(l.identifier) + 1 > IdentifierLimit
                     THEN "EccoIdentifierError" ELSE ""]
    ELSE l

\* Scanner.scan_identifier : the test of the while loop and one run of its
\* body; l is left as it is once the loop has ended or raised
IdentifierIteration(text, l) ==
    IF l.raised = "" /\ (isalpha(l.c) \/ l.c = "_")
    THEN [s |-> NextCharacter(text, l.s).s, c |-> NextCharacter(text, l.s).c,
          identifier |-> Append(l.identifier, l.c),
          raised |-> IF Len(l.identifier) + 1 >= IdentifierLimit
                     THEN "EccoIdentifierError" ELSE ""]
    ELSE l

\* n iterations of the loop: the first half of them, and from the state h
\* they end in, the second half
RECURSIVE IdentifierIterations(_, _, _)
IdentifierIterations(text, l, n) ==
    IF n = 0
    THEN l
    ELSE IF n = 1
    THEN IdentifierIteration(text, l)
    ELSE CHOOSE r \in {IdentifierIterations(text, h, n - n \div 2) :
                          h \in {IdentifierIterations(text, l, n \div 2)}} : TRUE

\* Scanner.scan_identifier : the while loop. Every iteration uses up one
\* character, so it has ended after as many iterations as there are characters
\* to read: c, the buffered one and the file's.
IdentifierLoop(text, s, c, identifier) ==
    IdentifierIterations(text, [s |-> s, c |-> c, identifier |-> identifier, raised |-> ""],
                         Len(text) + 2)

\* Scanner.scan_identifier : return identifier, p being what put_back did
IdentifierReturn(l, p) ==
    IF p.raised # ""
    THEN [s |-> p.s, ret |-> Raised(p.raised)]
    ELSE [s |-> p.s, ret |-> Identifier(l.identifier)]

\* Scanner.scan_identifier : after the loop, l being where it ended
IdentifierPutBack(l) ==
    IF l.raised # ""
    THEN [s |-> l.s, ret |-> Raised(l.raised)]
    ELSE IdentifierReturn(l, PutBack(l.s, l.c))

\* Scanner.scan_identifier
ScanIdentifier(text, s, c) == IdentifierPutBack(IdentifierLoop(text, s, c, <<>>))

\* self.current_token = t
WithToken(s, t) == [s EXCEPT !.current_token = t]

\* Scanner.scan : the integer literal branch, i being what scan_integer_literal did
ScanIntegerToken(i) ==
    IF i.ret.tag = "raised"
    THEN [s |-> WithToken(i.s, Token("INTEGER_LITERAL", 0)), ret |-> i.ret]
    ELSE [s |-> WithToken(i.s, Token("INTEGER_LITERAL", i.ret.v)),
          ret |-> Token("INTEGER_LITERAL", i.ret.v)]

\* Scanner.scan : the identifier branch, i being what scan_identifier did
ScanIdentifierToken(i) ==
    IF i.ret.tag = "raised"
    THEN [s |-> WithToken(i.s, FreshToken), ret |-> i.ret]
    ELSE IF i.ret.v \in Keywords
    THEN [s |-> WithToken(i.s, Token(TokenTypeFromSpelling(i.ret.v), 0)),
          ret |-> Token(TokenTypeFromSpelling(i.ret.v), 0)]
    ELSE [s |-> WithToken(i.s, FreshToken), ret |-> Raised("EccoSyntaxError")]

\* Scanner.scan : after c = self.skip(), k being what skip did
ScanClassify(text, k) ==
    IF k.c = ""
    THEN [s |-> WithToken(k.s, Token("EOF", 0)), ret |-> Token("EOF", 0)]
    ELSE IF TokenTypeFromCharacter(k.c) = "UNKNOWN_TOKEN"
    THEN IF isdigit(k.c)
         THEN ScanIntegerToken(ScanIntegerLiteral(text, k.s, k.c))
         ELSE IF isalpha(k.c) \/ k.c = "_"
         THEN ScanIdentifierToken(ScanIdentifier(text, k.s, k.c))
         ELSE [s |-> WithToken(k.s, FreshToken), ret |-> Raised("EccoSyntaxError")]
    ELSE [s |-> WithToken(k.s, Token(TokenTypeFromCharacter(k.c), 0)),
          ret |-> Token(TokenTypeFromCharacter(k.c), 0)]

\* Scanner.scan
Scan(text, s) == ScanClassify(text, Skip(text, s))

-----------------------------------------------------------------------------
(* Scanner : one method call per step, on any program file *)

\* the program files of at most n characters
RECURSIVE Texts(_)
Texts(n) ==
    IF n = 0
    THEN {<<>>}
    ELSE LET shorter == Texts(n - 1)
         IN  shorter \cup {Append(t, c) : t \in shorter, c \in Alphabet}

\* n times the character c
Repeat(c, n) == [i \in 1..n |-> c]

\* what follows the letters of a long program file: nothing, or one character
\* that is not part of an identifier
Terminators == {<<>>, <<";">>, <<" ">>, <<"\n">>, <<"1">>}

\* program files that begin with a run of letters about as long as the
\* identifier limit
LongTexts ==
    {Repeat("a", n) \o tail :
        n \in (IdentifierLimit - MaxMargin)..(IdentifierLimit + MaxMargin),
        tail \in Terminators}

\* the scanner is still called: reads at end of file would count on for ever
Callable == scanner.char_number < MaxCharNumber

\* the method's effect r on the scanner, and the character it returns
ReturnsCharacter(r) ==
    /\ scanner' = r.s
    /\ sc_ret' = Str(r.c)

\* the method's effect r on the scanner, and what it returns or raises
Returns(r) ==
    /\ scanner' = r.s
    /\ sc_ret' = r.ret

\* c is the character next_character or skip has just returned
CurrentCharacter(c) ==
    /\ sc_call.op \in {"next_character", "skip"}
    /\ sc_ret = Str(c)

\* next_character()
DoNextCharacter ==
    /\ Callable
    /\ ReturnsCharacter(NextCharacter(file_text, scanner))
    /\ sc_call' = [op |-> "next_character"]
    /\ UNCHANGED <<file_text, table_vars, parse_vars, life_vars>>

\* skip()
DoSkip ==
    /\ Callable
    /\ ReturnsCharacter(Skip(file_text, scanner))
    /\ sc_call' = [op |-> "skip"]
    /\ UNCHANGED <<file_text, table_vars, parse_vars, life_vars>>

\* what callers hand to put_back: a digit, a newline, and the two kinds of
\* string that are not one character
PutBackArguments == {"1", "\n", "", "ab"}

\* put_back(c)
DoPutBack(c) ==
    /\ LET r == PutBack(scanner, c)
       IN  /\ scanner' = r.s
           /\ sc_ret' = IF r.raised # "" THEN Raised(r.raised) ELSE None
    /\ sc_call' = [op |-> "put_back", c |-> c]
    /\ UNCHANGED <<file_text, table_vars, parse_vars, life_vars>>

\* scan_integer_literal(c), c being the current character from the input stream
DoScanIntegerLiteral(c) ==
    /\ Callable
    /\ CurrentCharacter(c)
    /\ Returns(ScanIntegerLiteral(file_text, scanner, c))
    /\ sc_call' = [op |-> "scan_integer_literal", c |-> c]
    /\ UNCHANGED <<file_text, table_vars, parse_vars, life_vars>>

\* scan_identifier(c), c being the current character from the input stream
DoScanIdentifier(c) ==
    /\ Callable
    /\ CurrentCharacter(c)
    /\ Returns(ScanIdentifier(file_text, scanner, c))
    /\ sc_call' = [op |-> "scan_identifier", c |-> c]
    /\ UNCHANGED <<file_text, table_vars, parse_vars, life_vars>>

\* scan()
DoScan ==
    /\ Callable
    /\ Returns(Scan(file_text, scanner))
    /\ sc_call' = [op |-> "scan"]
    /\ UNCHANGED <<file_text, table_vars, parse_vars, life_vars>>

NextScan ==
    \/ DoNextCharacter
    \/ DoSkip
    \/ \E c \in PutBackArguments : DoPutBack(c)
    \/ \E c \in Alphabet : DoScanIntegerLiteral(c)
    \/ \E c \in Alphabet : DoScanIdentifier(c)
    \/ DoScan

\* scan_file has not returned yet
Running == [tag |-> "running"]

\* the truth value of what scan() returned: a Token object is true, None is false
bool(v) == v # None

\* scan_file : the loop test `while self.scan()` and the print, r being what
\* scan() did and printed the tokens printed so far
ScanFileTest(r, printed) ==
    /\ scanner' = r.s
    /\ IF r.ret.tag = "raised"
       THEN /\ sc_ret' = r.ret
            /\ sc_call' = [op |-> "scan_file", running |-> FALSE, printed |-> printed]
       ELSE IF bool(r.ret)
       THEN /\ sc_ret' = Running
            /\ sc_call' = [op |-> "scan_file", running |-> TRUE,
                           printed |-> Append(printed, r.s.current_token)]
       ELSE /\ sc_ret' = None
            /\ sc_call' = [op |-> "scan_file", running |-> FALSE, printed |-> printed]

\* scan_file() is called
ScanFileCalled ==
    /\ Callable
    /\ sc_call.op = "init"
    /\ \E r \in {Scan(file_text, scanner)} : ScanFileTest(r, <<>>)
    /\ UNCHANGED <<file_text, table_vars, parse_vars, life_vars>>

\* scan_file() goes round its loop once more
ScanFileIteration ==
    /\ Callable
    /\ sc_call.op = "scan_file"
    /\ sc_call.running
    /\ \E r \in {Scan(file_text, scanner)} : ScanFileTest(r, sc_call.printed)
    /\ UNCHANGED <<file_text, table_vars, parse_vars, life_vars>>

NextScanFile ==
    \/ ScanFileCalled
    \/ ScanFileIteration

\* scan() and nothing else, as a token consumer calls the scanner
NextTokens ==
    DoScan

-----------------------------------------------------------------------------
(* Scanner : the input source, from its acquisition to its release *)

\* self.file before __enter__ has assigned it
Unset == [tag |-> "unset"]

\* a file object; closes counts the close() calls made on it
FileObject(closed, closes) == [tag |-> "file", closed |-> closed, closes |-> closes]

\* self.file.close()
FileClose(f) == FileObject(TRUE, f.closes + 1)

\* Scanner.__enter__
Enter(exists, f, init) ==
    IF exists
    THEN [file |-> FileObject(FALSE, 0), initialized |-> TRUE, raised |-> ""]
    ELSE [file |-> f, initialized |-> init, raised |-> "EccoFileNotFound"]

\* a variant of __exit__ that closes the file without looking at it
Exit_Unguarded(f) ==
    IF f = Unset
    THEN [file |-> f, raised |-> "AttributeError"]
    ELSE [file |-> FileClose(f), raised |-> ""]

\* Scanner.__exit__
Exit(f) ==
    IF f = Unset
    THEN [file |-> f, raised |-> "AttributeError"]
    ELSE IF ~f.closed
    THEN [file |-> FileClose(f), raised |-> ""]
    ELSE [file |-> f, raised |-> ""]

\* the scanner's user: at is "before", "with", "manual" or "left"; by tells how
\* the use came to its end
Caller(at, by) == [at |-> at, by |-> by]

\* an acquisition r, which leads the user to `at` when it succeeds
Acquires(r, at) ==
    /\ file' = r.file
    /\ initialized' = r.initialized
    /\ life_ret' = IF r.raised # "" THEN Raised(r.raised) ELSE None
    /\ caller' = IF r.raised # "" THEN Caller("left", "not acquired") ELSE Caller(at, "")

\* a release r
Releases(r) ==
    /\ file' = r.file
    /\ life_ret' = IF r.raised # "" THEN Raised(r.raised) ELSE None

\* `with scanner:` is entered: __enter__ is called, and the block is not
\* entered when it raises
WithEnter ==
    /\ caller.at = "before"
    /\ Acquires(Enter(source_exists, file, initialized), "with")
    /\ life_call' = "__enter__"
    /\ UNCHANGED <<source_exists, scan_vars, table_vars, parse_vars>>

\* open()
Open ==
    /\ caller.at = "before"
    /\ Acquires(Enter(source_exists, file, initialized), "manual")
    /\ life_call' = "open"
    /\ UNCHANGED <<source_exists, scan_vars, table_vars, parse_vars>>

\* scan() r while the source is held; an error leaves a with block, which
\* calls __exit__ on the way out
Scanning(r) ==
    /\ Returns(r)
    /\ sc_call' = [op |-> "scan"]
    /\ IF r.ret.tag = "raised" /\ caller.at = "with"
       THEN /\ Releases(Exit(file))
            /\ life_call' = "__exit__"
            /\ caller' = Caller("left", "error")
       ELSE UNCHANGED <<file, life_call, life_ret, caller>>

\* scan() is called while the source is held
HeldScan ==
    /\ caller.at \in {"with", "manual"}
    /\ Callable
    /\ \E r \in {Scan(file_text, scanner)} : Scanning(r)
    /\ UNCHANGED <<file_text, source_exists, initialized, table_vars, parse_vars>>

\* the with block is left without an error: at its end once the end-of-file
\* token has been scanned, or by a return before that
WithLeave ==
    /\ caller.at = "with"
    /\ Releases(Exit(file))
    /\ life_call' = "__exit__"
    /\ caller' = Caller("left", IF sc_ret = Token("EOF", 0) THEN "completion" ELSE "return")
    /\ UNCHANGED <<source_exists, initialized, scan_vars, table_vars, parse_vars>>

\* how the use ended, once a release has been called explicitly
Ended(c) == Caller("left", IF c.at = "manual" THEN "closed" ELSE c.by)

\* close(), after open() or after the use has ended
Close ==
    /\ caller.at \in {"manual", "left"}
    /\ Releases(Exit(file))
    /\ life_call' = "close"
    /\ caller' = Ended(caller)
    /\ UNCHANGED <<source_exists, initialized, scan_vars, table_vars, parse_vars>>

\* __exit__(None, None, None) called directly, after open() or after the use
\* has ended
ExitCalled ==
    /\ caller.at \in {"manual", "left"}
    /\ Releases(Exit(file))
    /\ life_call' = "__exit__"
    /\ caller' = Ended(caller)
    /\ UNCHANGED <<source_exists, initialized, scan_vars, table_vars, parse_vars>>

NextLife ==
    \/ WithEnter
    \/ Open
    \/ HeldScan
    \/ WithLeave
    \/ Close
    \/ ExitCalled

-----------------------------------------------------------------------------
(* The statement driver : statement.py *)

\* an AST fragment: opaque to the driver; here the tokens the expression was read from
Fragment(tokens) == [tag |-> "ASTNode", v |-> tokens]

\* next() on the generator gave a fragment
Yielded(tree) == [tag |-> "yielded", tree |-> tree]

\* next() on the generator found it exhausted
StopIteration == [tag |-> "StopIteration"]

\* the binary operators of the expression grammar
Operators == {"PLUS", "MINUS", "TIMES", "DIVIDE"}

\* parse_binary_expression : an operand is expected, r being what the scan
\* past the operator did
RECURSIVE ExpressionTail(_, _, _)
ExpressionOperand(text, op, r, tokens) ==
    IF r.ret.tag = "raised"
    THEN r
    ELSE IF r.s.current_token.type # "INTEGER_LITERAL"
    THEN [s |-> r.s, ret |-> Raised("EccoSyntaxError")]
    ELSE ExpressionTail(text, Scan(text, r.s), tokens \o <<op, r.s.current_token>>)

\* parse_binary_expression, r being what the scan past an operand did:
\* operator and operand, repeated
ExpressionTail(text, r, tokens) ==
    IF r.ret.tag = "raised"
    THEN r
    ELSE IF r.s.current_token.type \in Operators
    THEN ExpressionOperand(text, r.s.current_token, Scan(text, r.s), tokens)
    ELSE [s |-> r.s, ret |-> Fragment(tokens)]

\* parse_binary_expression(ptp): reads an expression from the scanner's tokens
\* and leaves the current token just past it
ParseBinaryExpression(text, s, ptp) ==
    IF s.current_token.type # "INTEGER_LITERAL"
    THEN [s |-> s, ret |-> Raised("EccoSyntaxError")]
    ELSE ExpressionTail(text, Scan(text, s), <<s.current_token>>)

\* match_token : after GLOBAL_SCANNER.scan(), r being what it did
MatchTokenScanned(r) ==
    [s |-> r.s, raised |-> IF r.ret.tag = "raised" THEN r.ret.exc ELSE ""]

\* a variant of match_token that returns without scanning
MatchToken_NoScan(text, s, tt) ==
    IF s.current_token.type = tt
    THEN [s |-> s, raised |-> ""]
    ELSE [s |-> s, raised |-> "EccoSyntaxError"]

\* match_token(tt) on GLOBAL_SCANNER
MatchToken(text, s, tt) ==
    IF s.current_token.type = tt
    THEN MatchTokenScanned(Scan(text, s))
    ELSE [s |-> s, raised |-> "EccoSyntaxError"]

\* ghost: what one match_token call was given and did
MatchCall(tt, s, m) == [expected |-> tt, before |-> s, after |-> m.s, raised |-> m.raised]

\* parse_statements : yield tree, m2 being what match_token(SEMICOLON) did
StatementYield(e, calls, m2) ==
    IF m2.raised # ""
    THEN [s |-> m2.s, ret |-> Raised(m2.raised), matches |-> calls, parsed |-> <<e.ret>>]
    ELSE [s |-> m2.s, ret |-> Yielded(e.ret), matches |-> calls, parsed |-> <<e.ret>>]

\* ghost: the record of the statement's second match_token call, added to the first
WithMatchCall(calls, tt, s, m) == Append(calls, MatchCall(tt, s, m))

\* a variant of the loop body that yields without matching the semicolon
StatementSemicolon_Unmatched(text, e, calls) ==
    IF e.ret.tag = "raised"
    THEN [s |-> e.s, ret |-> e.ret, matches |-> calls, parsed |-> <<>>]
    ELSE [s |-> e.s, ret |-> Yielded(e.ret), matches |-> calls, parsed |-> <<e.ret>>]

\* parse_statements : match_token(TokenType.SEMICOLON), e being what
\* parse_binary_expression did
StatementSemicolon(text, e, calls) ==
    IF e.ret.tag = "raised"
    THEN [s |-> e.s, ret |-> e.ret, matches |-> calls, parsed |-> <<>>]
    ELSE StatementYield(e, WithMatchCall(calls, "SEMICOLON", e.s, MatchToken(text, e.s, "SEMICOLON")),
                        MatchToken(text, e.s, "SEMICOLON"))

\* parse_statements : tree = parse_binary_expression(0), m1 being what
\* match_token(PRINT) did
StatementExpression(text, m1, calls) ==
    IF m1.raised # ""
    THEN [s |-> m1.s, ret |-> Raised(m1.raised), matches |-> calls, parsed |-> <<>>]
    ELSE StatementSemicolon(text, ParseBinaryExpression(text, m1.s, 0), calls)

\* ghost: the record of the statement's first match_token call
FirstMatchCall(tt, s, m) == <<MatchCall(tt, s, m)>>

\* parse_statements : the body of the while loop, up to its yield
Statement(text, s) ==
    StatementExpression(text, MatchToken(text, s, "PRINT"),
                        FirstMatchCall("PRINT", s, MatchToken(text, s, "PRINT")))

\* the program's first scan(), which parse_statements expects to have happened
ScanFirst ==
    /\ gen = "created"
    /\ scanner.current_token.tag = "unset"
    /\ sc_call.op = "init"
    /\ Returns(Scan(file_text, scanner))
    /\ sc_call' = [op |-> "scan"]
    /\ UNCHANGED <<file_text, table_vars, parse_vars, life_vars>>

\* the generator after the loop body b: suspended at the yield, or ended by the error
ResumeTo(b) ==
    /\ scanner' = b.s
    /\ resume_ret' = b.ret
    /\ match_calls' = b.matches
    /\ parsed' = parsed \o b.parsed
    /\ IF b.ret.tag = "yielded"
       THEN /\ gen' = "suspended"
            /\ yielded' = Append(yielded, b.ret.tree)
       ELSE /\ gen' = "finished"
            /\ UNCHANGED yielded

\* next() on the generator, while it can still run: from the loop test to the
\* next yield, to the end of the loop, or to the error that ends it
Resume ==
    /\ gen \in {"created", "suspended"}
    /\ sc_call.op = "scan"
    /\ sc_ret.tag # "raised"
    /\ IF scanner.current_token.type = "EOF"
       THEN /\ gen' = "finished"
            /\ resume_ret' = StopIteration
            /\ match_calls' = <<>>
            /\ UNCHANGED <<scanner, yielded, parsed>>
       ELSE ResumeTo(Statement(file_text, scanner))
    /\ UNCHANGED <<file_text, sc_call, sc_ret, program, table_vars, life_vars>>

\* next() on the finished generator
ResumeFinished ==
    /\ gen = "finished"
    /\ resume_ret' = StopIteration
    /\ match_calls' = <<>>
    /\ UNCHANGED <<gen, yielded, parsed, program, scan_vars, table_vars, life_vars>>

NextParse ==
    \/ ScanFirst
    \/ Resume
    \/ ResumeFinished

-----------------------------------------------------------------------------
(* Program files for the statement driver *)

Integer(n) == Token("INTEGER_LITERAL", n)

\* well-formed statements, each with the fragment its expression stands for
WellFormedStatements ==
    { [text |-> KeywordPrint \o <<" ", "1", ";">>,
       tree |-> Fragment(<<Integer(1)>>)],
      [text |-> KeywordPrint \o <<" ", "1", " ", "+", " ", "2", ";">>,
       tree |-> Fragment(<<Integer(1), Token("PLUS", 0), Integer(2)>>)],
      [text |-> <<"\n">> \o KeywordPrint \o <<"\t", "1", "2", "*", "2", " ", ";", "\n">>,
       tree |-> Fragment(<<Integer(12), Token("TIMES", 0), Integer(2)>>)] }

\* statements that are not well formed
MalformedStatements ==
    { [text |-> <<"1", ";">>, tree |-> None],
      [text |-> KeywordPrint \o <<" ", "1", " ">>, tree |-> None],
      [text |-> KeywordPrint \o <<" ", ";">>, tree |-> None],
      [text |-> KeywordPrint \o <<" ", "@", ";">>, tree |-> None],
      [text |-> KeywordPrint \o <<" ", "1", " ", "2", ";">>, tree |-> None],
      [text |-> KeywordPrint \o <<" ", "1", " ", "+", " ", "2">>, tree |-> None] }

Statements == WellFormedStatements \cup MalformedStatements

\* the programs of at most n statements
RECURSIVE Programs(_)
Programs(n) ==
    IF n = 0
    THEN {<<>>}
    ELSE LET shorter == Programs(n - 1)
         IN  shorter \cup {Append(q, st) : q \in shorter, st \in Statements}

\* the text of a program
RECURSIVE TextOf(_)
TextOf(q) == IF q = <<>> THEN <<>> ELSE Head(q).text \o TextOf(Tail(q))

-----------------------------------------------------------------------------
(* Properties of the scanner *)

\* what next_character will deliver from now on: the buffered character, then
\* the rest of the file
Pending(text, s) ==
    (IF s.put_back_buffer = "" THEN <<>> ELSE <<s.put_back_buffer>>)
    \o SubSeq(text, s.file_pos + 1, Len(text))

\* the longest prefix of cs whose characters are all in set
Run(cs, set) ==
    LET others == {i \in 1..Len(cs) : cs[i] \notin set}
    IN  IF others = {}
        THEN cs
        ELSE SubSeq(cs, 1, (CHOOSE i \in others : \A j \in others : i <= j) - 1)

\* cs without its first n characters
Drop(cs, n) == SubSeq(cs, n + 1, Len(cs))

\* the number a string of decimal digits denotes
RECURSIVE Base10(_)
Base10(ds) ==
    IF ds = <<>> THEN 0 ELSE DigitValue(Head(ds)) * 10^(Len(ds) - 1) + Base10(Tail(ds))

\* the number of newline characters in cs
RECURSIVE Newlines(_)
Newlines(cs) ==
    IF cs = <<>> THEN 0 ELSE (IF Head(cs) = "\n" THEN 1 ELSE 0) + Newlines(Tail(cs))

\* C8: scan_integer_literal(c), c a digit, returns the base-10 value of the
\* maximal run of digits that starts with c and leaves the character after
\* the run as the next one next_character returns; nothing is lost or read twice.
C8_IntegerLiteralRun ==
    [][(sc_call'.op = "scan_integer_literal" /\ isdigit(sc_call'.c)) =>
          LET rest == Pending(file_text, scanner)
              run  == Run(rest, Digits)
          IN  /\ sc_ret' = IntResult(Base10(<<sc_call'.c>> \o run))
              /\ Pending(file_text, scanner') = Drop(rest, Len(run))]_vars

\* C9: with the buffer empty, put_back(c) of one character and then
\* next_character() returns c, leaves the buffer empty, reads nothing from the
\* file and leaves line_number and char_number as they were.
C9_PutBackRoundTrip ==
    [][/\ (/\ sc_call'.op = "put_back"
           /\ len(sc_call'.c) = 1
           /\ scanner.put_back_buffer = "")
          => (/\ sc_ret' = None
              /\ scanner' = [scanner EXCEPT !.put_back_buffer = sc_call'.c])
       /\ (/\ sc_call.op = "put_back"
           /\ sc_ret = None
           /\ sc_call'.op = "next_character")
          => (/\ sc_ret' = Str(sc_call.c)
              /\ scanner' = [scanner EXCEPT !.put_back_buffer = ""])]_vars

\* C9's case: a newline has come back from next_character with nothing read
\* from the file and the counters where they started.
C9_Witness ==
    /\ sc_call.op = "next_character"
    /\ sc_ret = Str("\n")
    /\ scanner.file_pos = 0
    /\ scanner.put_back_buffer = ""
    /\ scanner.line_number = 1
    /\ scanner.char_number = 1

\* the characters an identifier is made of
IdentifierCharacters == Letters \cup {"_"}

SkipResult(rest) ==
    LET run == Run(rest, Whitespace)
    IN  IF Len(run) < Len(rest) THEN Str(rest[Len(run) + 1]) ELSE Str("")

\* C10, as claimed: skip() returns the first character after the run of
\* whitespace it is given (the end-of-input sentinel when there is none), and
\* line_number has grown by the number of newlines in that run.
C10_SkipCountsSkippedNewlines ==
    [][sc_call'.op = "skip" =>
          LET rest == Pending(file_text, scanner)
          IN  /\ sc_ret' = SkipResult(rest)
              /\ scanner'.line_number =
                     scanner.line_number + Newlines(Run(rest, Whitespace))]_vars

\* C10, amended: line_number has grown by the number of newlines of the run
\* that were read from the file; a newline that came out of the putback buffer
\* is not counted again.
C10_SkipCountsReadNewlines ==
    [][sc_call'.op = "skip" =>
          LET rest == Pending(file_text, scanner)
              fromFile == Run(rest, Whitespace)
              buffered == IF scanner.put_back_buffer = "\n" THEN 1 ELSE 0
          IN  /\ sc_ret' = SkipResult(rest)
              /\ scanner'.line_number =
                     scanner.line_number + Newlines(fromFile) - buffered]_vars

\* C10's case: skip() has passed two newlines and returned the letter after them.
C10_Witness ==
    /\ sc_call.op = "skip"
    /\ file_text = <<"\n", "\n", "a">>
    /\ sc_ret = Str("a")
    /\ scanner.line_number = 3

\* the pending characters without the whitespace they begin with
AfterBlank(rest) == Drop(rest, Len(Run(rest, Whitespace)))

\* what scan() is to do on the characters cs, which begin with a character
\* that is not whitespace
Classified(cs) ==
    IF Head(cs) \in SingleCharacterTokens
    THEN Token(TokenTypeFromCharacter(Head(cs)), 0)
    ELSE IF Head(cs) \in Digits
    THEN Token("INTEGER_LITERAL", Base10(Run(cs, Digits)))
    ELSE IF Head(cs) \in IdentifierCharacters /\ Run(cs, IdentifierCharacters) \in Keywords
    THEN Token(TokenTypeFromSpelling(Run(cs, IdentifierCharacters)), 0)
    ELSE Raised("EccoSyntaxError")

\* C12: after the whitespace, scan() turns a catalog character into its token
\* kind, a digit into an integer-literal token with the value of the digit
\* run, a run of letters and underscores into its keyword's token kind when it
\* spells one and into a syntax error when it does not, and any other
\* character into a syntax error; the current token is never an identifier
\* that is not a keyword.
C12_ScanClassifies ==
    [][sc_call'.op = "scan" =>
          LET cs == AfterBlank(Pending(file_text, scanner))
          IN  /\ cs # <<>> =>
                     /\ sc_ret' = Classified(cs)
                     /\ sc_ret'.tag = "Token" => scanner'.current_token = sc_ret'
              /\ scanner'.current_token.type \in
                     {"EOF", "INTEGER_LITERAL", "PRINT", "UNKNOWN_TOKEN"}
                     \cup {TokenTypeFromCharacter(c) : c \in SingleCharacterTokens}]_vars

\* a is what b ends with
IsSuffix(a, b) ==
    /\ Len(a) <= Len(b)
    /\ a = SubSeq(b, Len(b) - Len(a) + 1, Len(b))

\* the scanner as scan() finds it at its call of put_back, when it makes one
PutBackStates(text, s) ==
    LET k == Skip(text, s)
    IN  IF k.c = "" \/ TokenTypeFromCharacter(k.c) # "UNKNOWN_TOKEN"
        THEN {}
        ELSE IF isdigit(k.c)
        THEN {IntegerLoop(text, k.s, k.c, <<>>).s}
        ELSE IF (isalpha(k.c) \/ k.c = "_") /\ IdentifierLoop(text, k.s, k.c, <<>>).raised = ""
        THEN {IdentifierLoop(text, k.s, k.c, <<>>).s}
        ELSE {}

\* C18: under repeated scan() calls the putback buffer holds at most one
\* character and is empty whenever scan() calls put_back; what next_character
\* is still to deliver is always the rest of the program file from some
\* position on, each scan() takes characters off its front, and a scan() that
\* returns a token other than end-of-file takes at least one. So the
\* characters delivered, without those put back, are the file's, in order and
\* once each.
C18_NoCharacterLost ==
    [][sc_call'.op = "scan" =>
          /\ len(scanner'.put_back_buffer) <= 1
          /\ \A p \in PutBackStates(file_text, scanner) : p.put_back_buffer = ""
          /\ IsSuffix(Pending(file_text, scanner'), file_text)
          /\ IsSuffix(Pending(file_text, scanner'), Pending(file_text, scanner))
          /\ (sc_ret'.tag = "Token" /\ sc_ret'.type # "EOF") =>
                 Len(Pending(file_text, scanner')) < Len(Pending(file_text, scanner))]_vars

\* C18's case: the semicolon that ended an integer literal was put back, and
\* the next scan() has returned it as a token, with the buffer empty again.
C18_Witness ==
    /\ sc_call.op = "scan"
    /\ Len(file_text) >= 2
    /\ file_text[1] \in Digits
    /\ file_text[2] = ";"
    /\ sc_ret = Token("SEMICOLON", 0)
    /\ scanner.file_pos = 2
    /\ scanner.put_back_buffer = ""

C17_ScanKeepsPutBackContract ==
    sc_call.op = "scan" =>
        \/ sc_ret.tag = "Token"
        \/ sc_ret \in {Raised("EccoSyntaxError"), Raised("EccoIdentifierError")}

-----------------------------------------------------------------------------
(* Properties of the statement driver *)

\* every statement of the program is well formed
WellFormed(q) == \A i \in 1..Len(q) : q[i] \in WellFormedStatements

\* the fragments the program's statements stand for, in order
ExpectedTrees(q) == [i \in 1..Len(q) |-> q[i].tree]

\* C6: on a program of n well-formed statements parse_statements yields
\* exactly n fragments, one per statement in order, each the fragment the
\* expression parser returned for it, and then ends at end-of-file.
C6_OneFragmentPerStatement ==
    WellFormed(program) =>
        /\ sc_ret.tag # "raised"
        /\ resume_ret.tag # "raised"
        /\ Len(yielded) <= Len(program)
        /\ yielded = SubSeq(ExpectedTrees(program), 1, Len(yielded))
        /\ yielded = parsed
        /\ gen = "suspended" =>
               /\ yielded # <<>>
               /\ resume_ret = Yielded(yielded[Len(yielded)])
        /\ (gen # "finished" /\ sc_call.op = "scan" /\ Len(yielded) = Len(program)) =>
               scanner.current_token.type = "EOF"
        /\ gen = "finished" =>
               /\ yielded = ExpectedTrees(program)
               /\ resume_ret = StopIteration

\* C6's case: two well-formed statements have been parsed to the end.
C6_Witness ==
    /\ Len(program) = 2
    /\ WellFormed(program)
    /\ gen = "finished"
    /\ resume_ret = StopIteration
    /\ Len(yielded) = 2

\* the next token of the characters cs, and how many characters it takes up
\* with the whitespace before it
Lexeme(cs) ==
    LET blank == Len(Run(cs, Whitespace))
        rest  == Drop(cs, blank)
    IN  IF rest = <<>>
        THEN [len |-> blank, token |-> Token("EOF", 0)]
        ELSE IF Head(rest) \in SingleCharacterTokens
        THEN [len |-> blank + 1, token |-> Token(TokenTypeFromCharacter(Head(rest)), 0)]
        ELSE IF Head(rest) \in Digits
        THEN [len |-> blank + Len(Run(rest, Digits)),
              token |-> Token("INTEGER_LITERAL", Base10(Run(rest, Digits)))]
        ELSE IF Run(rest, Letters \cup {"_"}) = KeywordPrint
        THEN [len |-> blank + Len(KeywordPrint), token |-> Token("PRINT", 0)]
        ELSE [len |-> blank, token |-> None]

\* from `before` to `after` the scanner has moved on by exactly one token
AdvancedOneToken(before, after) ==
    LET rest == Pending(file_text, before)
    IN  /\ after.current_token = Lexeme(rest).token
        /\ Pending(file_text, after) = Drop(rest, Lexeme(rest).len)

\* the i-th match_token call of the last next() found another kind of token
\* than expected: it failed with a syntax error and left the scanner alone, and
\* the generator ended there without a fragment for the statement
MismatchFails(i) ==
    LET m == match_calls[i]
    IN  /\ m.raised = "EccoSyntaxError"
        /\ m.after = m.before
        /\ scanner = m.before
        /\ gen = "finished"
        /\ resume_ret = Raised("EccoSyntaxError")
        /\ Len(parsed) = Len(yielded) + (i - 1)

\* C7, as claimed: match_token(expected) on a token of the expected kind
\* advances the scanner by one token and returns normally; on another kind it
\* fails with a syntax error and leaves the scanner alone, and parse_statements
\* yields no fragment for that statement nor any afterwards.
C7_MatchReturnsOrMismatchFails ==
    [][/\ \A i \in 1..Len(match_calls') :
              IF match_calls'[i].before.current_token.type = match_calls'[i].expected
              THEN /\ match_calls'[i].raised = ""
                   /\ AdvancedOneToken(match_calls'[i].before, match_calls'[i].after)
              ELSE MismatchFails(i)'
       /\ gen = "finished" => yielded' = yielded]_vars

\* C7, amended: on a token of the expected kind match_token calls scan() once;
\* when that scan returns, the scanner has advanced by one token and
\* match_token returns normally, and when it fails its error leaves
\* match_token and ends the generator without a fragment for the statement.
\* The mismatch case is as claimed.
C7_MatchScansOrMismatchFails ==
    [][/\ \A i \in 1..Len(match_calls') :
              IF match_calls'[i].before.current_token.type = match_calls'[i].expected
              THEN IF match_calls'[i].raised = ""
                   THEN AdvancedOneToken(match_calls'[i].before, match_calls'[i].after)
                   ELSE /\ Scan(file_text, match_calls'[i].before).ret
                               = Raised(match_calls'[i].raised)
                        /\ i = Len(match_calls')
                        /\ gen' = "finished"
                        /\ resume_ret' = Raised(match_calls'[i].raised)
                        /\ Len(parsed') = Len(yielded') + (i - 1)
              ELSE MismatchFails(i)'
       /\ gen = "finished" => yielded' = yielded]_vars

\* C7's case: after one statement was yielded, the next one's expression is
\* not followed by a semicolon: match_token(PRINT) has advanced the scanner,
\* match_token(SEMICOLON) has failed and the generator has ended.
C7_Witness ==
    /\ Len(match_calls) = 2
    /\ match_calls[1].raised = ""
    /\ match_calls[2].before.current_token.type # "SEMICOLON"
    /\ match_calls[2].raised = "EccoSyntaxError"
    /\ gen = "finished"
    /\ Len(yielded) = 1

\* the characters cs are a sequence of tokens scan() recognizes
RECURSIVE Recognizable(_)
Recognizable(cs) ==
    /\ Lexeme(cs).token # None
    /\ Lexeme(cs).token.type # "EOF" => Recognizable(Drop(cs, Lexeme(cs).len))

\* the tokens of cs, up to the end of input
RECURSIVE TokensOf(_)
TokensOf(cs) ==
    IF Lexeme(cs).token.type = "EOF"
    THEN <<>>
    ELSE <<Lexeme(cs).token>> \o TokensOf(Drop(cs, Lexeme(cs).len))

\* C20: on a program file made of recognizable tokens, scan_file stops once
\* end of input has been reached: the scan() that finds the end of input ends
\* the loop, and scan_file returns, having printed each token of the file.
C20_ScanFileStopsAtEndOfInput ==
    [][(/\ sc_call'.op = "scan_file"
        /\ Recognizable(file_text)
        /\ scanner'.current_token.type = "EOF")
       => (/\ ~sc_call'.running
           /\ sc_ret' = None
           /\ sc_call'.printed = TokensOf(file_text))]_vars

-----------------------------------------------------------------------------
(* Properties of the input source *)

-----------------------------------------------------------------------------
(* The specifications *)

\* no source has been acquired
NoSource ==
    /\ source_exists = FALSE
    /\ file = Unset
    /\ initialized = FALSE
    /\ caller = Caller("before", "")
    /\ life_call = "init"
    /\ life_ret = None

\* the source has been acquired by a with block
Acquired ==
    /\ source_exists = TRUE
    /\ file = FileObject(FALSE, 0)
    /\ initialized = TRUE
    /\ caller = Caller("with", "")
    /\ life_call = "__enter__"
    /\ life_ret = None

\* no symbol table is in use
NoTable ==
    /\ ht_data = <<>>
    /\ fp_data = <<>>
    /\ fp_length = 0
    /\ last_call = [op |-> "init"]
    /\ ht_ret = None
    /\ fp_ret = None
    /\ latest = [n \in Names |-> None]
    /\ resized = FALSE

\* no statement driver is in use
NoParser ==
    /\ gen = "created"
    /\ yielded = <<>>
    /\ resume_ret = None
    /\ match_calls = <<>>
    /\ parsed = <<>>
    /\ program = <<>>

\* no scanner is in use
NoScanner ==
    /\ file_text = <<>>
    /\ scanner = NewScanner
    /\ sc_call = [op |-> "init"]
    /\ sc_ret = None
    /\ NoSource

\* the two tables as constructed, the hash table with any small slot count
InitTable ==
    /\ \E length \in 2..MaxInitLength : ht_data = [i \in 1..length |-> None]
    /\ fp_data = <<>>
    /\ fp_length = 0
    /\ last_call = [op |-> "init"]
    /\ ht_ret = None
    /\ fp_ret = None
    /\ latest = [n \in Names |-> None]
    /\ resized = FALSE
    /\ NoScanner
    /\ NoParser

\* a scanner as constructed, on any program file
InitScan ==
    /\ file_text \in Texts(MaxInput)
    /\ scanner = NewScanner
    /\ sc_call = [op |-> "init"]
    /\ sc_ret = None
    /\ Acquired
    /\ NoTable
    /\ NoParser

\* a scanner on a program file and the generator parse_statements() returns
InitParse ==
    /\ program \in Programs(MaxStatements)
    /\ file_text = TextOf(program)
    /\ scanner = NewScanner
    /\ sc_call = [op |-> "init"]
    /\ sc_ret = None
    /\ gen = "created"
    /\ yielded = <<>>
    /\ resume_ret = None
    /\ match_calls = <<>>
    /\ parsed = <<>>
    /\ Acquired
    /\ NoTable

\* a scanner as constructed, on a program file that begins with a long run of letters
InitLong ==
    /\ file_text \in LongTexts
    /\ scanner = NewScanner
    /\ sc_call = [op |-> "init"]
    /\ sc_ret = None
    /\ Acquired
    /\ NoTable
    /\ NoParser

\* a scanner as constructed, on a program file that may or may not exist
InitLife ==
    /\ file_text \in Texts(MaxInput)
    /\ scanner = NewScanner
    /\ sc_call = [op |-> "init"]
    /\ sc_ret = None
    /\ source_exists \in BOOLEAN
    /\ file = Unset
    /\ initialized = FALSE
    /\ caller = Caller("before", "")
    /\ life_call = "init"
    /\ life_ret = None
    /\ NoTable
    /\ NoParser

SpecTable == InitTable /\ [][NextTable]_vars

SpecScan == InitScan /\ [][NextScan]_vars

SpecParse == InitParse /\ [][NextParse]_vars

SpecLong == InitLong /\ [][NextScan]_vars

SpecTokens == InitScan /\ [][NextTokens]_vars

SpecLife == InitLife /\ [][NextLife]_vars

\* scan_file() runs on: a loop that can go round again does
SpecScanFile == InitScan /\ [][NextScanFile]_vars /\ WF_vars(NextScanFile)

=============================================================================
